---------------------------- MODULE Spec2Model ----------------------------
(***************************************************************************)
(* Model of the LL(1) SQL syntax analyzer of src/sql_compiler/             *)
(* syntaxAnalysis.py (class SyntaxAnalyzer): construction of the FIRST     *)
(* sets, the FOLLOW sets and the prediction table, the table-driven        *)
(* engine analyze_tokens, and the recursive-descent tree builder           *)
(* build_ast_from_tokens.                                                  *)
(*                                                                         *)
(* Conventions.  The Python string 'ε' (the nullable marker) is written    *)
(* "eps".  Python's None is the value None below.  A Python list or tuple  *)
(* is a sequence, a set a set, a dict a function.  str(list) is modelled   *)
(* by the list itself (the snapshot taken at that moment).  The Chinese    *)
(* message texts are modelled by tagged tuples that keep the parts the     *)
(* f-string interpolates.                                                  *)
(***************************************************************************)
EXTENDS Integers, Sequences, FiniteSets, TLC

VARIABLES
    grammar,        \* self.grammar, as the sequence of (nt, productions) in dict order
    first_sets,     \* self.first_sets
    follow_sets,    \* self.follow_sets
    parsing_table,  \* self.parsing_table
    printed,        \* the cells named by the conflict warnings printed so far
    changed,        \* the local 'changed' of the two fixpoint loops
    k,              \* position of the (nt, production) loops; 0 between passes
    pc,             \* where __init__ is: "first", "follow", "table", "ready", "KeyError"
    form,           \* the caller's statement: the terminal kinds written so far
    edit,           \* how the caller changed a derived sentence ("none": not at all)
    th,             \* per thread: the running invocation's locals and its result
    _idx,           \* self._idx
    _stream,        \* self._stream
    calls,          \* number of invocations started on this analyzer
    done            \* how the invocations that ended so far ended, oldest first

init_vars == <<grammar, first_sets, follow_sets, parsing_table, printed, changed, k, pc>>
call_vars == <<form, edit, th, _idx, _stream, calls, done>>
vars == <<grammar, first_sets, follow_sets, parsing_table, printed, changed, k, pc,
          form, edit, th, _idx, _stream, calls, done>>

----------------------------------------------------------------------------
(* Bounds of the model. *)

\* Number of alternatives of Query in the small grammars of SpecTable.
MaxAlts == 2

\* Longest sentence of the grammar (in terminals) the caller writes.
MaxLen == 13

\* Longest sentence the caller damages (drops a token of, cuts, appends to).
MaxEditLen == 9

\* Invocations one analyzer serves in the runs of SpecSeq and of SpecConc.
MaxCalls == 2

\* Identifiers of a select-list and comparisons of a condition in SpecTree.
MaxNames == 2

MaxConds == 2

\* The tokens without a terminal a caller puts into one statement.
MaxIgnored == 2

----------------------------------------------------------------------------
(* The grammar and the symbol sets of __init__. *)

EPS == "eps"

None == <<"None">>

SQLGrammar ==
    << [nt |-> "Prog", productions |-> << <<"Query", ";">> >>],
       [nt |-> "Query", productions |->
            << <<"SELECT", "SelList", "FROM", "Tbl", "WhereOpt">>,
               <<"INSERT", "INTO", "Tbl", "VALUES", "(", "ValList", ")">>,
               <<"UPDATE", "Tbl", "SET", "SetList">>,
               <<"DELETE", "FROM", "Tbl">> >>],
       [nt |-> "SelList", productions |-> << <<"*">>, <<"ID", "SelListRest">> >>],
       [nt |-> "SelListRest", productions |-> << <<>>, <<",", "ID", "SelListRest">> >>],
       [nt |-> "Tbl", productions |-> << <<"ID">> >>],
       [nt |-> "WhereOpt", productions |-> << <<>>, <<"WHERE", "Cond">> >>],
       [nt |-> "Cond", productions |-> << <<"Expr", "RelOp", "Expr", "CondTail">> >>],
       [nt |-> "CondTail", productions |-> << <<>>, <<"AND", "Cond">>, <<"OR", "Cond">> >>],
       [nt |-> "Expr", productions |-> << <<"ID">>, <<"NUM">>, <<"STRING">> >>],
       [nt |-> "RelOp", productions |->
            << <<"=">>, <<"<>">>, <<"<">>, <<">">>, <<"<=">>, <<">=">>, <<"!=">> >>],
       [nt |-> "ValList", productions |-> << <<"Val", "ValListRest">> >>],
       [nt |-> "ValListRest", productions |-> << <<>>, <<",", "Val", "ValListRest">> >>],
       [nt |-> "Val", productions |-> << <<"ID">>, <<"NUM">>, <<"STRING">> >>],
       [nt |-> "SetList", productions |-> << <<"ID", "=", "Val", "SetListRest">> >>],
       [nt |-> "SetListRest", productions |->
            << <<>>, <<",", "ID", "=", "Val", "SetListRest">> >>] >>

terminals ==
    { "SELECT", "FROM", "WHERE", "INSERT", "INTO", "VALUES", "UPDATE", "SET", "DELETE",
      "AND", "OR",
      "ID", "NUM", "STRING", "*", ",", ";", "(", ")", "EOF",
      "=", "<>", "<", ">", "<=", ">=", "!=" }

\* set(self.grammar.keys())
non_terminals(g) == { g[i].nt : i \in 1..Len(g) }

\* The (nt, production) pairs in the order in which
\* "for nt, productions in self.grammar.items(): for production in productions"
\* visits them.
RECURSIVE Rules(_)
Rules(g) ==
    IF g = <<>> THEN <<>>
    ELSE [ j \in 1..Len(g[1].productions) |->
             [nt |-> g[1].nt, production |-> g[1].productions[j]] ]
         \o Rules(Tail(g))

----------------------------------------------------------------------------
(* FIRST sets. *)

\* The for loop of _add_first_of_production, from index i on.
RECURSIVE ScanFirstOfProduction(_, _, _, _)
ScanFirstOfProduction(first, nt, production, i) ==
    IF i > Len(production) THEN first
    ELSE LET symbol == production[i] IN
         IF symbol \in terminals
         THEN [first EXCEPT ![nt] = @ \cup {symbol}]
         ELSE IF symbol \in DOMAIN first
         THEN LET added == [first EXCEPT ![nt] = @ \cup (first[symbol] \ {EPS})] IN
              IF EPS \notin added[symbol] THEN added
              ELSE IF i = Len(production)
                   THEN [added EXCEPT ![nt] = @ \cup {EPS}]
                   ELSE ScanFirstOfProduction(added, nt, production, i + 1)
         ELSE ScanFirstOfProduction(first, nt, production, i + 1)

\* _add_first_of_production that assigns FIRST(nt) anew in place of adding to it.
AddFirstOfProductionAssign(first, nt, production) ==
    IF production = <<>>
    THEN [first EXCEPT ![nt] = {EPS}]
    ELSE ScanFirstOfProduction([first EXCEPT ![nt] = {}], nt, production, 1)

\* _add_first_of_production without its branch for the empty production.
AddFirstOfProductionNoEmpty(first, nt, production) ==
    ScanFirstOfProduction(first, nt, production, 1)

AddFirstOfProduction(first, nt, production) ==
    IF production = <<>>
    THEN [first EXCEPT ![nt] = @ \cup {EPS}]
    ELSE ScanFirstOfProduction(first, nt, production, 1)

\* The for loop of _first_of_sequence, from index i on, first_set being acc.
RECURSIVE ScanFirstOfSequence(_, _, _, _)
ScanFirstOfSequence(first, acc, sequence, i) ==
    IF i > Len(sequence) THEN acc
    ELSE LET symbol == sequence[i] IN
         IF symbol \in terminals
         THEN acc \cup {symbol}
         ELSE IF symbol \in DOMAIN first
         THEN LET added == acc \cup (first[symbol] \ {EPS}) IN
              IF EPS \notin first[symbol] THEN added
              ELSE IF i = Len(sequence)
                   THEN added \cup {EPS}
                   ELSE ScanFirstOfSequence(first, added, sequence, i + 1)
         ELSE ScanFirstOfSequence(first, acc, sequence, i + 1)

\* _first_of_sequence whose terminal branch does not break: every terminal of
\* the sequence is added.
FirstOfSequenceNoBreak(first, sequence) ==
    IF sequence = <<>> THEN {EPS}
    ELSE ScanFirstOfSequence(first, {}, sequence, 1)
         \cup { sequence[i] : i \in { n \in 1..Len(sequence) : sequence[n] \in terminals } }

\* _first_of_sequence without its "if not sequence" test.
FirstOfSequenceNoEmpty(first, sequence) ==
    ScanFirstOfSequence(first, {}, sequence, 1)

FirstOfSequence(first, sequence) ==
    IF sequence = <<>> THEN {EPS}
    ELSE ScanFirstOfSequence(first, {}, sequence, 1)

\* "for production in productions" of _compute_first_sets, from production j
\* on: the sets and the flag 'changed' after it.
RECURSIVE FirstOfProductions(_, _, _, _, _)
FirstOfProductions(first, chg, nt, productions, j) ==
    IF j > Len(productions) THEN [sets |-> first, changed |-> chg]
    ELSE LET old_size == Cardinality(first[nt])
             new == AddFirstOfProduction(first, nt, productions[j])
         IN  IF Cardinality(new[nt]) > old_size
             THEN FirstOfProductions(new, TRUE, nt, productions, j + 1)
             ELSE FirstOfProductions(new, chg, nt, productions, j + 1)

\* "for nt, productions in self.grammar.items()" of _compute_first_sets, from
\* entry i on.
RECURSIVE FirstPass(_, _, _, _)
FirstPass(g, first, chg, i) ==
    IF i > Len(g) THEN [sets |-> first, changed |-> chg]
    ELSE LET r == FirstOfProductions(first, chg, g[i].nt, g[i].productions, 1) IN
         IF r.changed
         THEN FirstPass(g, r.sets, TRUE, i + 1)
         ELSE FirstPass(g, r.sets, FALSE, i + 1)

\* "while changed" of _compute_first_sets.
RECURSIVE FirstFixpoint(_, _)
FirstFixpoint(g, first) ==
    LET pass == FirstPass(g, first, FALSE, 1) IN
    IF pass.changed THEN FirstFixpoint(g, pass.sets) ELSE pass.sets

ComputeFirstSets(g) ==
    FirstFixpoint(g, [nt \in non_terminals(g) |-> {}])

----------------------------------------------------------------------------
(* FOLLOW sets. *)

\* The for loop of _add_follow_of_production, from index i on.
RECURSIVE ScanFollowOfProduction(_, _, _, _, _, _)
ScanFollowOfProduction(first, follow, any_changed, nt, production, i) ==
    IF i > Len(production) THEN [sets |-> follow, changed |-> any_changed]
    ELSE LET symbol == production[i] IN
         IF symbol \in DOMAIN follow
         THEN LET before == follow[symbol]
                  remaining == SubSeq(production, i + 1, Len(production))
                  first_of_remaining == FirstOfSequence(first, remaining)
                  gained ==
                      IF remaining = <<>> THEN follow[nt]
                      ELSE IF EPS \in first_of_remaining
                           THEN follow[nt] \cup (first_of_remaining \ {EPS})
                           ELSE first_of_remaining
                  new == [follow EXCEPT ![symbol] = @ \cup gained]
              IN  IF before # new[symbol]
                  THEN ScanFollowOfProduction(first, new, TRUE, nt, production, i + 1)
                  ELSE ScanFollowOfProduction(first, new, any_changed,
                                              nt, production, i + 1)
         ELSE ScanFollowOfProduction(first, follow, any_changed, nt, production, i + 1)

\* _add_follow_of_production that never reports a change.
AddFollowOfProductionUnflagged(first, follow, nt, production) ==
    [sets |-> ScanFollowOfProduction(first, follow, FALSE, nt, production, 1).sets,
     changed |-> FALSE]

AddFollowOfProduction(first, follow, nt, production) ==
    ScanFollowOfProduction(first, follow, FALSE, nt, production, 1)

\* "for production in productions" of _compute_follow_sets, from production j on.
RECURSIVE FollowOfProductions(_, _, _, _, _, _)
FollowOfProductions(first, follow, chg, nt, productions, j) ==
    IF j > Len(productions) THEN [sets |-> follow, changed |-> chg]
    ELSE LET r == AddFollowOfProduction(first, follow, nt, productions[j]) IN
         IF r.changed
         THEN FollowOfProductions(first, r.sets, TRUE, nt, productions, j + 1)
         ELSE FollowOfProductions(first, r.sets, chg, nt, productions, j + 1)

\* "for nt, productions in self.grammar.items()" of _compute_follow_sets, from
\* entry i on.
RECURSIVE FollowPass(_, _, _, _, _)
FollowPass(g, first, follow, chg, i) ==
    IF i > Len(g) THEN [sets |-> follow, changed |-> chg]
    ELSE LET r == FollowOfProductions(first, follow, chg, g[i].nt, g[i].productions, 1) IN
         IF r.changed
         THEN FollowPass(g, first, r.sets, TRUE, i + 1)
         ELSE FollowPass(g, first, r.sets, FALSE, i + 1)

\* "while changed" of _compute_follow_sets.
RECURSIVE FollowFixpoint(_, _, _)
FollowFixpoint(g, first, follow) ==
    LET pass == FollowPass(g, first, follow, FALSE, 1) IN
    IF pass.changed THEN FollowFixpoint(g, first, pass.sets) ELSE pass.sets

\* The FOLLOW sets as _compute_follow_sets initialises them.
InitialFollowSets(g) ==
    [nt \in non_terminals(g) |-> IF nt = "Prog" THEN {"$"} ELSE {}]

ComputeFollowSets(g, first) ==
    FollowFixpoint(g, first, InitialFollowSets(g))

----------------------------------------------------------------------------
(* The prediction table. *)

\* The table with every cell initialised to the empty production.
EmptyTableEps(g) ==
    [nt \in non_terminals(g) |-> [terminal \in terminals |-> <<>>]]

\* The table as the first loop of _build_parsing_table leaves it: every cell None.
EmptyTable(g) ==
    [nt \in non_terminals(g) |-> [terminal \in terminals |-> None]]

\* The body of "for production in productions" without its second loop: the
\* terminals of FOLLOW(nt) are not visited.
AssignProductionFirstOnly(first, follow, table, nt, production, reached) ==
    LET by_first == FirstOfSequence(first, production) \ {EPS}
    IN  [table |-> [table EXCEPT ![nt] =
                      [t \in DOMAIN @ |-> IF t \in by_first THEN production ELSE @[t]]],
         warned |-> { <<nt, t>> : t \in { x \in by_first : table[nt][x] # None } }]

\* The body of "for production in productions" in _build_parsing_table.  The
\* second loop reads self.parsing_table[nt][terminal] for every terminal of
\* FOLLOW(nt); a terminal that is no key of the row raises KeyError.  'reached'
\* is the part of FOLLOW(nt) the loop visited before it ended (all of it when
\* no KeyError is raised; the visiting order of a set is not fixed).
AssignProduction(first, follow, table, nt, production, reached) ==
    LET first_of_production == FirstOfSequence(first, production)
        by_first == first_of_production \ {EPS}
        warned_first == { t \in by_first : table[nt][t] # None }
        after_first ==
            [table EXCEPT ![nt] =
                [t \in DOMAIN @ |-> IF t \in by_first THEN production ELSE @[t]]]
        by_follow == IF EPS \in first_of_production THEN reached ELSE {}
        warned_follow == { t \in by_follow : after_first[nt][t] # None }
        after_follow ==
            [after_first EXCEPT ![nt] =
                [t \in DOMAIN @ |-> IF t \in by_follow THEN <<>> ELSE @[t]]]
    IN  [table |-> after_follow,
         warned |-> { <<nt, t>> : t \in warned_first \cup warned_follow }]

\* The terminals of FOLLOW(nt) that are no key of the row of nt, when the
\* production derives the empty string (the KeyError of the second loop).
MissingKeys(first, follow, table, nt, production) ==
    IF EPS \in FirstOfSequence(first, production)
    THEN follow[nt] \ DOMAIN table[nt]
    ELSE {}

\* "for production in productions" of _build_parsing_table, from production j
\* on: the table and the cells of the warnings printed.
RECURSIVE FillRow(_, _, _, _, _, _, _)
FillRow(first, follow, table, warned, nt, productions, j) ==
    IF j > Len(productions) THEN [table |-> table, warned |-> warned]
    ELSE LET r == AssignProduction(first, follow, table, nt, productions[j], follow[nt])
         IN  IF r.warned # {}
             THEN FillRow(first, follow, r.table, warned \cup r.warned,
                          nt, productions, j + 1)
             ELSE FillRow(first, follow, r.table, warned, nt, productions, j + 1)

\* "for nt, productions in self.grammar.items()" of _build_parsing_table, from
\* entry i on.
RECURSIVE FillTable(_, _, _, _, _, _)
FillTable(g, first, follow, table, warned, i) ==
    IF i > Len(g) THEN [table |-> table, warned |-> warned]
    ELSE LET r == FillRow(first, follow, table, warned, g[i].nt, g[i].productions, 1) IN
         IF r.warned # {}
         THEN FillTable(g, first, follow, r.table, r.warned, i + 1)
         ELSE FillTable(g, first, follow, r.table, {}, i + 1)

BuildParsingTable(g, first, follow) ==
    FillTable(g, first, follow, EmptyTable(g), {}, 1).table

----------------------------------------------------------------------------
(* __init__, step by step: one step per visit of a production. *)

rules == Rules(grammar)

\* "while changed: changed = False" of _compute_first_sets, entering a pass.
FirstPassBegin ==
    /\ pc = "first" /\ k = 0 /\ changed
    /\ changed' = FALSE
    /\ k' = 1
    /\ UNCHANGED call_vars
    /\ UNCHANGED <<grammar, first_sets, follow_sets, parsing_table, printed, pc>>

\* One visit of a production in _compute_first_sets.
FirstStep ==
    /\ pc = "first" /\ k \in 1..Len(rules)
    /\ LET nt == rules[k].nt
           new == AddFirstOfProduction(first_sets, nt, rules[k].production)
       IN  /\ first_sets' = new
           /\ changed' = (changed \/ Cardinality(new[nt]) > Cardinality(first_sets[nt]))
    /\ k' = IF k = Len(rules) THEN 0 ELSE k + 1
    /\ UNCHANGED call_vars
    /\ UNCHANGED <<grammar, follow_sets, parsing_table, printed, pc>>

\* The FIRST loop ends; _compute_follow_sets initialises the FOLLOW sets.
FirstDone ==
    /\ pc = "first" /\ k = 0 /\ ~changed
    /\ pc' = "follow"
    /\ follow_sets' = InitialFollowSets(grammar)
    /\ changed' = TRUE
    /\ UNCHANGED call_vars
    /\ UNCHANGED <<grammar, first_sets, parsing_table, printed, k>>

FollowPassBegin ==
    /\ pc = "follow" /\ k = 0 /\ changed
    /\ changed' = FALSE
    /\ k' = 1
    /\ UNCHANGED call_vars
    /\ UNCHANGED <<grammar, first_sets, follow_sets, parsing_table, printed, pc>>

\* One visit of a production in _compute_follow_sets.
FollowStep ==
    /\ pc = "follow" /\ k \in 1..Len(rules)
    /\ LET r == AddFollowOfProduction(first_sets, follow_sets,
                                      rules[k].nt, rules[k].production)
       IN  /\ follow_sets' = r.sets
           /\ changed' = (changed \/ r.changed)
    /\ k' = IF k = Len(rules) THEN 0 ELSE k + 1
    /\ UNCHANGED call_vars
    /\ UNCHANGED <<grammar, first_sets, parsing_table, printed, pc>>

\* The FOLLOW loop ends; _build_parsing_table initialises the table.
FollowDone ==
    /\ pc = "follow" /\ k = 0 /\ ~changed
    /\ pc' = "table"
    /\ parsing_table' = EmptyTable(grammar)
    /\ k' = 1
    /\ UNCHANGED call_vars
    /\ UNCHANGED <<grammar, first_sets, follow_sets, printed, changed>>

\* One visit of a production in _build_parsing_table that runs through.
TableStep ==
    /\ pc = "table" /\ k \in 1..Len(rules)
    /\ MissingKeys(first_sets, follow_sets, parsing_table,
                   rules[k].nt, rules[k].production) = {}
    /\ LET r == AssignProduction(first_sets, follow_sets, parsing_table, rules[k].nt,
                                 rules[k].production, follow_sets[rules[k].nt])
       IN  /\ parsing_table' = r.table
           /\ printed' = printed \cup r.warned
    /\ k' = k + 1
    /\ pc' = IF k = Len(rules) THEN "ready" ELSE "table"
    /\ UNCHANGED call_vars
    /\ UNCHANGED <<grammar, first_sets, follow_sets, changed>>

\* One visit of a production in _build_parsing_table that raises KeyError: the
\* terminals of FOLLOW(nt) visited before the missing one have been assigned.
TableKeyError ==
    /\ pc = "table" /\ k \in 1..Len(rules)
    /\ LET nt == rules[k].nt
           missing == MissingKeys(first_sets, follow_sets, parsing_table,
                                  nt, rules[k].production)
       IN  /\ missing # {}
           /\ \E reached \in SUBSET (follow_sets[nt] \ missing) :
                LET r == AssignProduction(first_sets, follow_sets, parsing_table, nt,
                                          rules[k].production, reached)
                IN  /\ parsing_table' = r.table
                    /\ printed' = printed \cup r.warned
    /\ pc' = "KeyError"
    /\ UNCHANGED call_vars
    /\ UNCHANGED <<grammar, first_sets, follow_sets, changed, k>>

\* No invocation exists while the analyzer is under construction.
Threads == {1, 2}

Idle == [op |-> "idle", pc |-> "idle"]

NoCalls ==
    /\ form = <<>>
    /\ edit = "none"
    /\ th = [t \in Threads |-> Idle]
    /\ _idx = 0
    /\ _stream = <<>>
    /\ calls = 0
    /\ done = <<>>

\* The state in which __init__ calls _compute_first_sets' loop, for grammar g.
InitOf(g) ==
    /\ grammar = g
    /\ first_sets = [nt \in non_terminals(g) |-> {}]
    /\ follow_sets = <<>>
    /\ parsing_table = <<>>
    /\ printed = {}
    /\ changed = TRUE
    /\ k = 0
    /\ pc = "first"
    /\ NoCalls

Construct ==
    \/ FirstPassBegin \/ FirstStep \/ FirstDone
    \/ FollowPassBegin \/ FollowStep \/ FollowDone
    \/ TableStep

\* Construction of the analyzer, as the program runs it.
InitBuild == InitOf(SQLGrammar)

SpecBuild == InitBuild /\ [][Construct]_vars

----------------------------------------------------------------------------
(* Tokens and their mapping to terminals.  A token is the lexer's tuple    *)
(* <<type, value, line, col>>.                                             *)

\* str.upper() on the keyword spellings the model writes.
Upper(value) ==
    CASE value = "select" -> "SELECT" [] value = "from" -> "FROM"
      [] value = "where" -> "WHERE"   [] value = "insert" -> "INSERT"
      [] value = "into" -> "INTO"     [] value = "values" -> "VALUES"
      [] value = "update" -> "UPDATE" [] value = "set" -> "SET"
      [] value = "delete" -> "DELETE" [] value = "and" -> "AND"
      [] value = "or" -> "OR"         [] value = "create" -> "CREATE"
      [] value = "table" -> "TABLE"
      [] OTHER -> value

\* The value None of the lambda of 'COMMENT' (no terminal has this name).
NoneTerminal == "None"

\* The keys of self.token_to_terminal.
TokenTypes == {"KEYWORD", "ID", "NUM", "STRING", "RANGE", "OP", "COMMENT", "EOF"}

\* The mapping with a lambda for 'COMMENT' that returns the comment's text.
token_to_terminal_comment(token_type, token_value) ==
    CASE token_type = "KEYWORD" -> Upper(token_value)
      [] token_type = "ID" -> "ID"
      [] token_type = "NUM" -> "NUM"
      [] token_type = "STRING" -> "STRING"
      [] token_type = "EOF" -> "EOF"
      [] OTHER -> token_value

\* self.token_to_terminal[token_type](token_value), token_type being a key.
token_to_terminal(token_type, token_value) ==
    CASE token_type = "KEYWORD" -> Upper(token_value)
      [] token_type = "ID" -> "ID"
      [] token_type = "NUM" -> "NUM"
      [] token_type = "STRING" -> "STRING"
      [] token_type = "RANGE" -> token_value
      [] token_type = "OP" -> token_value
      [] token_type = "COMMENT" -> NoneTerminal
      [] token_type = "EOF" -> "EOF"

\* The marker both parsers append to the converted stream.
EOFToken == <<"EOF", "$", 0, 0>>

\* The conversion loop of analyze_tokens (and of _map_tokens, which does the
\* same with dict.get): tokens of an unknown type or mapped to None are skipped.
RECURSIVE ConvertTokens(_)
ConvertTokens(tokens) ==
    IF tokens = <<>> THEN <<>>
    ELSE LET token == Head(tokens)
             terminal == IF token[1] \in TokenTypes
                         THEN token_to_terminal(token[1], token[2])
                         ELSE NoneTerminal
         IN  IF terminal = NoneTerminal
             THEN ConvertTokens(Tail(tokens))
             ELSE <<<<terminal, token[2], token[3], token[4]>>>> \o ConvertTokens(Tail(tokens))

----------------------------------------------------------------------------
(* analyze_tokens.  The locals of one invocation are a record; messages:   *)
(*   <<"empty_input">>                     "输入为空"                       *)
(*   <<"accept">>                          "接受"                           *)
(*   <<"match", cur>>                      "匹配 {cur}"                     *)
(*   <<"error_expected", top, cur>>        "错误：期望 {top}，得到 {cur}"   *)
(*   <<"error_no_production", top, cur>>   "错误：{top} 在 {cur} 处无产生式"*)
(*   <<"use", top, production>>            "用 {top} -> {production}"       *)
(*   <<"error_unknown_symbol", top>>       "错误：未知符号 {top}"           *)

\* _create_error_output returning no record at all.
CreateErrorOutputEmpty(error_msg) == <<>>

\* _create_error_output
CreateErrorOutput(error_msg) == << <<1, <<>>, <<>>, error_msg>> >>

\* [(t[0], t[1]) for t in input_tokens[:3]]
InputPreview(input_tokens) ==
    [ i \in 1..(IF Len(input_tokens) < 3 THEN Len(input_tokens) ELSE 3) |->
        <<input_tokens[i][1], input_tokens[i][2]>> ]

\* The production in its own order.
NotReversed(production) == production

\* reversed(production)
Reversed(production) ==
    [ i \in 1..Len(production) |-> production[Len(production) + 1 - i] ]

\* analyze_tokens up to its while loop, the step counter starting at one.
EngineStartAtOne(tokens) ==
    IF tokens = <<>>
    THEN [op |-> "analyze_tokens", pc |-> "empty", tokens |-> tokens,
          stack |-> <<>>, input_tokens |-> <<>>, step |-> 0, output |-> <<>>,
          result |-> CreateErrorOutput(<<"empty_input">>)]
    ELSE [op |-> "analyze_tokens", pc |-> "loop", tokens |-> tokens,
          stack |-> <<"$", "Prog">>,
          input_tokens |-> ConvertTokens(tokens) \o <<EOFToken>>,
          step |-> 1, output |-> <<>>, result |-> <<>>]

\* analyze_tokens up to its while loop.
EngineStart(tokens) ==
    IF tokens = <<>>
    THEN [op |-> "analyze_tokens", pc |-> "empty", tokens |-> tokens,
          stack |-> <<>>, input_tokens |-> <<>>, step |-> 0, output |-> <<>>,
          result |-> CreateErrorOutput(<<"empty_input">>)]
    ELSE [op |-> "analyze_tokens", pc |-> "loop", tokens |-> tokens,
          stack |-> <<"$", "Prog">>,
          input_tokens |-> ConvertTokens(tokens) \o <<EOFToken>>,
          step |-> 0, output |-> <<>>, result |-> <<>>]

\* An error branch that appends its record and does not return.
EngineFailContinue(l, record) ==
    [l EXCEPT !.step = record[1], !.output = Append(l.output, record)]

\* The error branches: the record is appended to output, and what is returned
\* is _create_error_output(expression).
EngineFail(l, record) ==
    [l EXCEPT !.step = record[1], !.output = Append(l.output, record),
              !.pc = "failed", !.result = CreateErrorOutput(record[4])]

\* One test of "while stack" and, when it holds, one run of the loop body.
EngineIteration(table, l) ==
    IF l.stack = <<>>
    THEN [l EXCEPT !.pc = "exhausted", !.result = l.output]
    ELSE
    LET step == l.step + 1
        top == l.stack[Len(l.stack)]
        current_token == IF l.input_tokens # <<>> THEN l.input_tokens[1] ELSE EOFToken
        current_type == current_token[1]
        record(expression) ==
            <<step, l.stack, InputPreview(l.input_tokens), expression>>
        popped == SubSeq(l.stack, 1, Len(l.stack) - 1)
    IN
    IF top = "$" /\ current_type = "EOF"
    THEN LET out == Append(l.output, record(<<"accept">>)) IN
         [l EXCEPT !.step = step, !.output = out, !.pc = "accepted", !.result = out]
    ELSE IF top \in terminals
    THEN IF top = current_type
         THEN IF l.input_tokens = <<>>
              THEN [l EXCEPT !.step = step, !.stack = popped, !.pc = "IndexError"]
              ELSE [l EXCEPT !.step = step, !.stack = popped,
                             !.input_tokens = Tail(l.input_tokens),
                             !.output = Append(l.output, record(<<"match", current_type>>))]
         ELSE EngineFail(l, record(<<"error_expected", top, current_type>>))
    ELSE IF top \in DOMAIN table
    THEN LET production == IF current_type \in DOMAIN table[top]
                           THEN table[top][current_type] ELSE None
         IN  IF production = None
             THEN EngineFail(l, record(<<"error_no_production", top, current_type>>))
             ELSE [l EXCEPT !.step = step,
                            !.stack = popped \o Reversed(production),
                            !.output = Append(l.output, record(<<"use", top, production>>))]
    ELSE EngineFail(l, record(<<"error_unknown_symbol", top>>))

\* A whole call of analyze_tokens, run alone.
RECURSIVE EngineRun(_, _)
EngineRun(table, l) ==
    IF l.pc = "loop" THEN EngineRun(table, EngineIteration(table, l)) ELSE l

AnalyzeTokens(table, tokens) == EngineRun(table, EngineStart(tokens)).result

----------------------------------------------------------------------------
(* The caller: it writes a statement, token by token from the grammar, may *)
(* damage it, and hands its tokens to the analyzer.                        *)

\* The analyzer as __init__ leaves it.
BuiltFirst == ComputeFirstSets(SQLGrammar)
BuiltFollow == ComputeFollowSets(SQLGrammar, BuiltFirst)
BuiltTable == BuildParsingTable(SQLGrammar, BuiltFirst, BuiltFollow)

Constructed ==
    /\ grammar = SQLGrammar
    /\ first_sets = BuiltFirst
    /\ follow_sets = BuiltFollow
    /\ parsing_table = BuiltTable
    /\ printed = {}
    /\ changed = FALSE
    /\ k = Len(Rules(SQLGrammar)) + 1
    /\ pc = "ready"

\* Length of the shortest terminal string each symbol derives (a terminal: 1).
Unknown == MaxLen + MaxLen

YieldOfSymbol(m, symbol) == IF symbol \in DOMAIN m THEN m[symbol] ELSE 1

RECURSIVE YieldOf(_, _)
YieldOf(m, symbols) ==
    IF symbols = <<>> THEN 0
    ELSE LET n == YieldOfSymbol(m, Head(symbols)) + YieldOf(m, Tail(symbols)) IN
         IF n > Unknown THEN Unknown ELSE n

Least(S) == CHOOSE n \in S : \A o \in S : n <= o

RECURSIVE ShortestYields(_)
ShortestYields(m) ==
    LET all == Rules(SQLGrammar)
        next == [ nt \in DOMAIN m |->
                    Least({ YieldOf(m, all[i].production) :
                              i \in { x \in 1..Len(all) : all[x].nt = nt } }) ]
    IN  IF next = m THEN m ELSE ShortestYields(next)

ShortestYield == ShortestYields([nt \in non_terminals(SQLGrammar) |-> Unknown])

\* Position of the leftmost non-terminal of a form, 0 when there is none.
LeftmostNonTerminal(symbols) ==
    LET at == { i \in 1..Len(symbols) : symbols[i] \in non_terminals(SQLGrammar) } IN
    IF at = {} THEN 0 ELSE Least(at)

IsSentence(symbols) == LeftmostNonTerminal(symbols) = 0

\* The token the lexer makes of the terminal written at position pos: keywords
\* in lower case at odd positions, identifiers named by their position.
Keywords ==
    { "SELECT", "FROM", "WHERE", "INSERT", "INTO", "VALUES", "UPDATE", "SET", "DELETE",
      "AND", "OR", "CREATE", "TABLE" }

Lower(keyword) ==
    CASE keyword = "SELECT" -> "select" [] keyword = "FROM" -> "from"
      [] keyword = "WHERE" -> "where"   [] keyword = "INSERT" -> "insert"
      [] keyword = "INTO" -> "into"     [] keyword = "VALUES" -> "values"
      [] keyword = "UPDATE" -> "update" [] keyword = "SET" -> "set"
      [] keyword = "DELETE" -> "delete" [] keyword = "AND" -> "and"
      [] keyword = "OR" -> "or"         [] keyword = "CREATE" -> "create"
      [] keyword = "TABLE" -> "table"

IdNames == <<"a", "b", "c", "d", "e">>

Lexeme(kind, pos) ==
    CASE kind \in Keywords ->
            <<"KEYWORD", IF pos % 2 = 1 THEN Lower(kind) ELSE kind, 1, pos>>
      [] kind = "ID" -> <<"ID", IdNames[(pos % Len(IdNames)) + 1], 1, pos>>
      [] kind = "NUM" -> <<"NUM", "1", 1, pos>>
      [] kind = "STRING" -> <<"STRING", "'s'", 1, pos>>
      [] kind \in {",", ";", "(", ")"} -> <<"RANGE", kind, 1, pos>>
      [] kind = "COMMENT" -> <<"COMMENT", "--c", 1, pos>>
      [] kind = "UNKNOWN" -> <<"UNKNOWN", "@", 1, pos>>
      [] kind = "EOF" -> <<"EOF", "", 1, pos>>
      [] OTHER -> <<"OP", kind, 1, pos>>

Lex(kinds) == [ i \in 1..Len(kinds) |-> Lexeme(kinds[i], i) ]

\* What the caller may append to a sentence.
Extras == {"ID", ";", "CREATE", "COMMENT", "UNKNOWN", "+", "EOF"}

\* The caller expands the leftmost non-terminal of the statement.
Derive ==
    /\ calls = 0 /\ edit = "none"
    /\ LET i == LeftmostNonTerminal(form) IN
       /\ i # 0
       /\ \E r \in 1..Len(rules) :
            /\ rules[r].nt = form[i]
            /\ form' = SubSeq(form, 1, i - 1) \o rules[r].production
                       \o SubSeq(form, i + 1, Len(form))
            /\ YieldOf(ShortestYield, form') <= MaxLen
    /\ UNCHANGED <<edit, th, _idx, _stream, calls, done>>
    /\ UNCHANGED init_vars

\* The caller drops one token of the sentence.
DropToken ==
    /\ calls = 0 /\ edit = "none" /\ IsSentence(form) /\ Len(form) <= MaxEditLen
    /\ \E i \in 1..Len(form) :
         form' = SubSeq(form, 1, i - 1) \o SubSeq(form, i + 1, Len(form))
    /\ edit' = "drop"
    /\ UNCHANGED <<th, _idx, _stream, calls, done>>
    /\ UNCHANGED init_vars

\* The caller cuts the sentence short (down to nothing at all).
CutShort ==
    /\ calls = 0 /\ edit = "none" /\ IsSentence(form) /\ Len(form) <= MaxEditLen
    /\ \E n \in 0..(Len(form) - 1) : form' = SubSeq(form, 1, n)
    /\ edit' = "cut"
    /\ UNCHANGED <<th, _idx, _stream, calls, done>>
    /\ UNCHANGED init_vars

\* The caller appends one more token to the sentence.
AppendToken ==
    /\ calls = 0 /\ edit = "none" /\ IsSentence(form) /\ Len(form) <= MaxEditLen
    /\ \E x \in Extras : form' = Append(form, x)
    /\ edit' = "append"
    /\ UNCHANGED <<th, _idx, _stream, calls, done>>
    /\ UNCHANGED init_vars

\* analyze_tokens is called with the statement's tokens.
CallAnalyzeTokens(t, tokens) ==
    /\ th[t].op = "idle"
    /\ th' = [th EXCEPT ![t] = EngineStart(tokens)]
    /\ calls' = calls + 1
    /\ UNCHANGED <<form, edit, _idx, _stream, done>>
    /\ UNCHANGED init_vars

\* One iteration of the while loop with the table read by setdefault in place
\* of get: a terminal that is no key of the row becomes one.
EngineStepSetDefault(t) ==
    /\ th[t].op = "analyze_tokens" /\ th[t].pc = "loop"
    /\ th' = [th EXCEPT ![t] = EngineIteration(parsing_table, th[t])]
    /\ LET top == IF th[t].stack # <<>> THEN th[t].stack[Len(th[t].stack)] ELSE "$"
           current_type == IF th[t].input_tokens # <<>>
                           THEN th[t].input_tokens[1][1] ELSE "EOF"
       IN  parsing_table' =
             IF top \in DOMAIN parsing_table /\ current_type \notin DOMAIN parsing_table[top]
             THEN [parsing_table EXCEPT ![top] =
                     [x \in DOMAIN parsing_table[top] \cup {current_type} |->
                        IF x \in DOMAIN parsing_table[top]
                        THEN parsing_table[top][x] ELSE None]]
             ELSE parsing_table
    /\ UNCHANGED <<form, edit, _idx, _stream, calls, done>>
    /\ UNCHANGED <<grammar, first_sets, follow_sets, printed, changed, k, pc>>

\* One iteration of the while loop of analyze_tokens.
EngineStep(t) ==
    /\ th[t].op = "analyze_tokens" /\ th[t].pc = "loop"
    /\ th' = [th EXCEPT ![t] = EngineIteration(parsing_table, th[t])]
    /\ UNCHANGED <<form, edit, _idx, _stream, calls, done>>
    /\ UNCHANGED init_vars

InitEngine ==
    /\ Constructed
    /\ form = <<"Prog">>
    /\ edit = "none"
    /\ th = [t \in Threads |-> Idle]
    /\ _idx = 0
    /\ _stream = <<>>
    /\ calls = 0
    /\ done = <<>>

NextEngine ==
    \/ Derive
    \/ DropToken
    \/ CutShort
    \/ AppendToken
    \/ (calls = 0 /\ IsSentence(form) /\ CallAnalyzeTokens(1, Lex(form)))
    \/ EngineStep(1)

\* One call of analyze_tokens on a statement the caller wrote.
SpecEngine == InitEngine /\ [][NextEngine]_vars

----------------------------------------------------------------------------
(* Properties of one call of analyze_tokens (SpecEngine). *)

ErrorTags ==
    {"empty_input", "error_expected", "error_no_production", "error_unknown_symbol"}

IsErrorRecord(record) == record[4][1] \in ErrorTags

IsAcceptRecord(record) == record[4] = <<"accept">>

ErrorRecords(trace) == { i \in 1..Len(trace) : IsErrorRecord(trace[i]) }

AcceptRecords(trace) == { i \in 1..Len(trace) : IsAcceptRecord(trace[i]) }

\* The call of thread t has returned (or raised).
Returned(t) == th[t].op # "idle" /\ th[t].pc \notin {"loop", "run"}

\* The engine of thread t left through one of its error returns.
EngineFailed(t) == th[t].op = "analyze_tokens" /\ th[t].pc \in {"failed", "empty"}

\* C1: analyze_tokens run on a sentence of the grammar (a statement the caller
\* derived from Prog and did not damage) returns a trace whose last record is
\* the accept action and which holds no error record.
C1_AcceptSentences ==
    (th[1].op = "analyze_tokens" /\ Returned(1) /\ edit = "none")
        => /\ th[1].result # <<>>
           /\ IsAcceptRecord(th[1].result[Len(th[1].result)])
           /\ ErrorRecords(th[1].result) = {}

\* A SELECT with two comparisons joined by AND has been accepted.
C1_Witness ==
    /\ th[1].op = "analyze_tokens" /\ th[1].pc = "accepted" /\ edit = "none"
    /\ \E i \in 1..Len(form) : form[i] = "AND"

\* C2: when the engine fails, what analyze_tokens returns holds exactly one
\* error record and no accept record.
C2_RejectOneError ==
    EngineFailed(1)
        => /\ Cardinality(ErrorRecords(th[1].result)) = 1
           /\ AcceptRecords(th[1].result) = {}

\* SELECT FROM ID ; (the select-list missing) has failed.
C2_Witness ==
    /\ EngineFailed(1)
    /\ form = <<"SELECT", "FROM", "ID", ";">>
    /\ th[1].result = CreateErrorOutput(<<"error_no_production", "SelList", "FROM">>)

\* C3: on a failing run the returned trace holds the record of every step
\* executed, in step order, the error record last.
C3_FullTraceOnFailure ==
    (th[1].op = "analyze_tokens" /\ th[1].pc = "failed")
        => /\ Len(th[1].result) = th[1].step
           /\ \A i \in 1..th[1].step : th[1].result[i] = th[1].output[i]

\* C4: the failure record carries the index of the step that failed.
C4_FailureStep ==
    (th[1].op = "analyze_tokens" /\ th[1].pc = "failed")
        => th[1].result[Len(th[1].result)][1] = th[1].step

----------------------------------------------------------------------------
(* The table builder on other grammars: Prog, Query and Tbl with a few     *)
(* productions each, over the analyzer's terminals.                        *)

QueryAlternatives ==
    { <<>>, <<"ID">>, <<"ID", "NUM">>, <<"Tbl", "NUM">>, <<"Tbl">>, <<";">> }

QueryProductions ==
    UNION { [1..n -> QueryAlternatives] : n \in 1..MaxAlts }

SmallGrammars ==
    { << [nt |-> "Prog", productions |-> <<p>>],
         [nt |-> "Query", productions |-> q],
         [nt |-> "Tbl", productions |-> t] >> :
        p \in { <<"Query", ";">>, <<"Query">> },
        q \in QueryProductions,
        t \in { << <<"ID">> >>, << <<>>, <<"ID">> >> } }

InitTable == \E g \in SmallGrammars : InitOf(g)

NextTable == Construct \/ TableKeyError

\* Construction of an analyzer over one of the small grammars.
SpecTable == InitTable /\ [][NextTable]_vars

----------------------------------------------------------------------------
(* Reference FIRST and FOLLOW sets of a grammar, by closure. *)

\* The non-terminals that derive the empty string.
RECURSIVE NullableClosure(_, _)
NullableClosure(g, N) ==
    LET all == Rules(g)
        more == { all[i].nt : i \in { x \in 1..Len(all) :
                    \A j \in 1..Len(all[x].production) : all[x].production[j] \in N } }
    IN  IF more \subseteq N THEN N ELSE NullableClosure(g, N \cup more)

RefNullable(g) == NullableClosure(g, {})

\* The occurrences <<i, j>>: symbol j of rule i.
Occurrences(g) ==
    LET all == Rules(g) IN
    UNION { { <<i, j>> : j \in 1..Len(all[i].production) } : i \in 1..Len(all) }

\* An occurrence that only nullable symbols precede in its production.
AtFront(g, o) ==
    \A n \in 1..(o[2] - 1) : Rules(g)[o[1]].production[n] \in RefNullable(g)

\* An occurrence that only nullable symbols follow in its production.
AtBack(g, o) ==
    LET production == Rules(g)[o[1]].production IN
    \A n \in (o[2] + 1)..Len(production) : production[n] \in RefNullable(g)

\* The symbols a derivation from a symbol of S can begin with.
RECURSIVE BeginClosure(_, _)
BeginClosure(g, S) ==
    LET all == Rules(g)
        more == { all[o[1]].production[o[2]] :
                    o \in { x \in Occurrences(g) : all[x[1]].nt \in S /\ AtFront(g, x) } }
    IN  IF more \subseteq S THEN S ELSE BeginClosure(g, S \cup more)

RefFirstOfSymbol(g, symbol) ==
    IF symbol \in terminals THEN {symbol}
    ELSE (BeginClosure(g, {symbol}) \cap terminals)
         \cup (IF symbol \in RefNullable(g) THEN {EPS} ELSE {})

RefFirst(g) == [nt \in non_terminals(g) |-> RefFirstOfSymbol(g, nt)]

\* The terminals that can begin what follows occurrence o inside its production.
RefFirstAfter(g, o) ==
    LET production == Rules(g)[o[1]].production IN
    UNION { RefFirstOfSymbol(g, production[n]) \ {EPS} :
              n \in { m \in (o[2] + 1)..Len(production) :
                        \A q \in (o[2] + 1)..(m - 1) : production[q] \in RefNullable(g) } }

\* The least sets with: marker in FOLLOW(Prog); for A -> alpha B beta, FOLLOW(B)
\* holds FIRST(beta) minus the nullable marker and, beta empty or nullable, FOLLOW(A).
RECURSIVE FollowClosure(_, _)
FollowClosure(g, F) ==
    LET all == Rules(g)
        next == [ B \in DOMAIN F |->
                    F[B]
                    \cup UNION { RefFirstAfter(g, o) :
                                   o \in { x \in Occurrences(g) :
                                             all[x[1]].production[x[2]] = B } }
                    \cup UNION { F[all[o[1]].nt] :
                                   o \in { x \in Occurrences(g) :
                                             /\ all[x[1]].production[x[2]] = B
                                             /\ AtBack(g, x) } } ]
    IN  IF next = F THEN F ELSE FollowClosure(g, next)

RefFollow(g, marker) ==
    FollowClosure(g, [nt \in non_terminals(g) |-> IF nt = "Prog" THEN {marker} ELSE {}])

SQLRefFirst == RefFirst(SQLGrammar)

SQLRefFollowEOF == RefFollow(SQLGrammar, "EOF")

----------------------------------------------------------------------------
(* Properties of construction (SpecBuild, SpecTable). *)

\* C7: while the table of the fixed grammar is filled no cell is assigned that
\* already holds an entry: no conflict warning is printed.
C7_ZeroConflict == printed = {}

\* The table of the fixed grammar is complete, eps-entries included.
C7_Witness ==
    /\ pc = "ready" /\ grammar = SQLGrammar
    /\ parsing_table["WhereOpt"][";"] = <<>>
    /\ parsing_table["Query"]["DELETE"] = <<"DELETE", "FROM", "Tbl">>

\* What the productions of nt assign to cell (nt, terminal), in assignment order,
\* from rule i on.
RECURSIVE Claimed(_, _, _)
Claimed(nt, terminal, i) ==
    IF i > Len(rules) THEN <<>>
    ELSE LET first_of_production == FirstOfSequence(first_sets, rules[i].production)
             by_first == IF terminal \in first_of_production \ {EPS}
                         THEN <<rules[i].production>> ELSE <<>>
             by_follow == IF EPS \in first_of_production /\ terminal \in follow_sets[nt]
                          THEN << <<>> >> ELSE <<>>
         IN  (IF rules[i].nt = nt THEN by_first \o by_follow ELSE <<>>)
             \o Claimed(nt, terminal, i + 1)

Cells == { <<nt, terminal>> : nt \in non_terminals(grammar), terminal \in terminals }

\* C8: a cell that two productions of one non-terminal claim keeps the
\* production assigned first; the later assignment is only logged, and
\* construction runs to completion.
C8_EarliestWins ==
    pc = "ready" =>
        \A c \in Cells :
            Claimed(c[1], c[2], 1) # <<>>
                => parsing_table[c[1]][c[2]] = Claimed(c[1], c[2], 1)[1]

\* What _build_parsing_table does instead: every assignment to a cell that holds
\* an entry prints a warning and replaces the entry, so the cell ends with the
\* production assigned last.
TableLatestWins ==
    pc = "ready" =>
        \A c \in Cells :
            LET claimed == Claimed(c[1], c[2], 1) IN
            /\ claimed = <<>> => parsing_table[c[1]][c[2]] = None
            /\ claimed # <<>> => parsing_table[c[1]][c[2]] = claimed[Len(claimed)]
            /\ Len(claimed) >= 2 <=> c \in printed

\* C9: the FIRST sets _compute_first_sets ends with are the reference FIRST sets
\* of the fixed grammar; FIRST(Expr) = {ID, NUM, STRING}; the nullable marker is
\* in FIRST of exactly SelListRest, WhereOpt, CondTail, ValListRest, SetListRest.
C9_FirstSets ==
    pc \in {"follow", "table", "ready"} =>
        /\ first_sets = SQLRefFirst
        /\ first_sets["Expr"] = {"ID", "NUM", "STRING"}
        /\ { nt \in DOMAIN first_sets : EPS \in first_sets[nt] }
             = {"SelListRest", "WhereOpt", "CondTail", "ValListRest", "SetListRest"}

\* The FIRST loop of the fixed grammar has ended.
C9_Witness ==
    /\ pc = "follow" /\ grammar = SQLGrammar
    /\ first_sets["Cond"] = {"ID", "NUM", "STRING"}
    /\ first_sets["CondTail"] = {"AND", "OR", EPS}

\* C10: the FOLLOW sets _compute_follow_sets ends with are the least sets that
\* hold the end-of-input marker of the engine, "EOF", in FOLLOW(Prog) and obey
\* the two rules for every production A -> alpha B beta.
C10_FollowSets ==
    pc \in {"table", "ready"} =>
        /\ "EOF" \in follow_sets["Prog"]
        /\ follow_sets = SQLRefFollowEOF

----------------------------------------------------------------------------
(* build_ast_from_tokens.  The cursor self._idx and the stream self._stream *)
(* are attributes of the analyzer; everything else of an invocation is      *)
(* local: its control stack ctl (what is left to run, first element next)   *)
(* and its value stack vals (what the calls returned, last element newest). *)
(* Trees are tuples: <<"Program", query>>, <<"Select", columns, table,      *)
(* where>>, <<"Columns", all, names>>, <<"Table", name>>, <<"Id", name>>,   *)
(* <<"Num", value>>, <<"Str", value>>, <<"BinaryOp", left, op, right>>.     *)

\* _map_tokens without the EOF marker at the end.
MapTokensNoEOF(tokens) == ConvertTokens(tokens)

MapTokens(tokens) == ConvertTokens(tokens) \o <<EOFToken>>

\* The bodies of the _parse_ methods, as what is left to run when one is
\* entered: ("call", method), ("accept", terminal, branch taken, branch not
\* taken), ("expect", terminal, keep or drop the token), ("mk", node to return).

\* _parse_Prog that takes the end of input itself.
_parse_Prog_EOF ==
    << <<"call", "Query">>, <<"expect", ";", "drop">>, <<"expect", "EOF", "drop">>,
       <<"mk", "Program">> >>

_parse_Prog ==
    << <<"call", "Query">>, <<"expect", ";", "drop">>, <<"mk", "Program">> >>

\* _parse_Query with _expect('SELECT') in place of "if self._accept('SELECT')".
_parse_Query_Expect ==
    << <<"expect", "SELECT", "drop">>, <<"call", "Query_select">> >>

_parse_Query ==
    << <<"accept", "SELECT", "Query_select", "Query_other">> >>

_parse_SelList ==
    << <<"accept", "*", "SelList_all", "SelList_names">> >>

_parse_SelListRest ==
    << <<"accept", ",", "SelListRest_more", "SelListRest_none">> >>

_parse_Tbl ==
    << <<"expect", "ID", "keep">>, <<"mk", "Table">> >>

_parse_WhereOpt ==
    << <<"accept", "WHERE", "WhereOpt_cond", "WhereOpt_none">> >>

_parse_Cond ==
    << <<"call", "Expr">>, <<"call", "RelOp">>, <<"call", "Expr">>,
       <<"mk", "BinaryOp">>, <<"call", "CondTail">>, <<"mk", "CondJoin">> >>

_parse_CondTail ==
    << <<"accept", "AND", "CondTail_and", "CondTail_or">> >>

_parse_Expr ==
    << <<"expr">> >>

_parse_RelOp ==
    << <<"accept", "=", "RelOp_eq", "RelOp_2">> >>

\* The body of a method, or of a branch of one of its ifs.
Code(label) ==
    CASE label = "Prog" -> _parse_Prog
      [] label = "Query" -> _parse_Query
      [] label = "Query_select" ->
            << <<"call", "SelList">>, <<"expect", "FROM", "drop">>, <<"call", "Tbl">>,
               <<"call", "WhereOpt">>, <<"mk", "Select">> >>
      [] label = "Query_other" -> << <<"raise", "NotImplementedError">> >>
      [] label = "SelList" -> _parse_SelList
      [] label = "SelList_all" -> << <<"mk", "ColumnsAll">> >>
      [] label = "SelList_names" ->
            << <<"expect", "ID", "keep">>, <<"call", "SelListRest">>, <<"mk", "ColumnsNames">> >>
      [] label = "SelListRest" -> _parse_SelListRest
      [] label = "SelListRest_more" ->
            << <<"expect", "ID", "keep">>, <<"call", "SelListRest">>, <<"mk", "names">> >>
      [] label = "SelListRest_none" -> << <<"mk", "no_names">> >>
      [] label = "Tbl" -> _parse_Tbl
      [] label = "WhereOpt" -> _parse_WhereOpt
      [] label = "WhereOpt_cond" -> << <<"call", "Cond">> >>
      [] label = "WhereOpt_none" -> << <<"mk", "None">> >>
      [] label = "Cond" -> _parse_Cond
      [] label = "CondTail" -> _parse_CondTail
      [] label = "CondTail_and" -> << <<"call", "Cond">>, <<"mk", "TailAND">> >>
      [] label = "CondTail_or" -> << <<"accept", "OR", "CondTail_or_cond", "CondTail_none">> >>
      [] label = "CondTail_or_cond" -> << <<"call", "Cond">>, <<"mk", "TailOR">> >>
      [] label = "CondTail_none" -> << <<"mk", "None">> >>
      [] label = "Expr" -> _parse_Expr
      [] label = "RelOp" -> _parse_RelOp
      [] label = "RelOp_2" -> << <<"accept", "<>", "RelOp_ne", "RelOp_3">> >>
      [] label = "RelOp_3" -> << <<"accept", "<", "RelOp_lt", "RelOp_4">> >>
      [] label = "RelOp_4" -> << <<"accept", ">", "RelOp_gt", "RelOp_5">> >>
      [] label = "RelOp_5" -> << <<"accept", "<=", "RelOp_le", "RelOp_6">> >>
      [] label = "RelOp_6" -> << <<"accept", ">=", "RelOp_ge", "RelOp_7">> >>
      [] label = "RelOp_7" -> << <<"accept", "!=", "RelOp_ne2", "RelOp_fail">> >>
      [] label = "RelOp_eq" -> << <<"push", "=">> >>
      [] label = "RelOp_ne" -> << <<"push", "<>">> >>
      [] label = "RelOp_lt" -> << <<"push", "<">> >>
      [] label = "RelOp_gt" -> << <<"push", ">">> >>
      [] label = "RelOp_le" -> << <<"push", "<=">> >>
      [] label = "RelOp_ge" -> << <<"push", ">=">> >>
      [] label = "RelOp_ne2" -> << <<"push", "!=">> >>
      [] label = "RelOp_fail" -> << <<"relop_fail">> >>

\* The newest value but i of the value stack, and the stack without its n newest.
Top(vals, i) == vals[Len(vals) - i]
Pop(vals, n) == SubSeq(vals, 1, Len(vals) - n)

\* The AST classes: a node is its class name and its attributes.
Program(query) == <<"Program", query>>

Select(columns, table, where) == <<"Select", columns, table, where>>

\* Columns whose constructor drops the names it is given.
ColumnsNoNames(all_columns, names) == <<"Columns", all_columns, <<>> >>

Columns(all_columns, names) == <<"Columns", all_columns, names>>

Table(name) == <<"Table", name>>

\* BinaryOp whose constructor takes its operands the other way round.
BinaryOpSwapped(left, op, right) == <<"BinaryOp", right, op, left>>

BinaryOp(left, op, right) == <<"BinaryOp", left, op, right>>

\* The return statements of the _parse_ methods: the node built of the values
\* the calls before it returned.
Make(kind, vals) ==
    CASE kind = "Program" -> Append(Pop(vals, 1), Program(Top(vals, 0)))
      [] kind = "Select" ->
            Append(Pop(vals, 3), Select(Top(vals, 2), Top(vals, 1), Top(vals, 0)))
      [] kind = "ColumnsAll" -> Append(vals, Columns(TRUE, <<>>))
      [] kind = "ColumnsNames" ->
            Append(Pop(vals, 2), Columns(FALSE, <<Top(vals, 1)>> \o Top(vals, 0)))
      [] kind = "names" -> Append(Pop(vals, 2), <<Top(vals, 1)>> \o Top(vals, 0))
      [] kind = "no_names" -> Append(vals, <<>>)
      [] kind = "Table" -> Append(Pop(vals, 1), Table(Top(vals, 0)))
      [] kind = "None" -> Append(vals, None)
      [] kind = "BinaryOp" ->
            Append(Pop(vals, 3), BinaryOp(Top(vals, 2), Top(vals, 1), Top(vals, 0)))
      [] kind = "CondJoin" ->
            Append(Pop(vals, 2),
                   IF Top(vals, 0)[1] = "None" THEN Top(vals, 1)
                   ELSE BinaryOp(Top(vals, 1), Top(vals, 0)[1], Top(vals, 0)[2]))
      [] kind = "TailAND" -> Append(Pop(vals, 1), <<"AND", Top(vals, 0)>>)
      [] kind = "TailOR" -> Append(Pop(vals, 1), <<"OR", Top(vals, 0)>>)

\* The steps of an invocation that touch only its locals.
IsLocal(instr) == instr[1] \in {"call", "mk", "push", "raise", "return"}

ExecLocal(l) ==
    LET instr == Head(l.ctl)
        rest == Tail(l.ctl)
    IN  CASE instr[1] = "call" -> [l EXCEPT !.ctl = Code(instr[2]) \o rest]
          [] instr[1] = "mk" -> [l EXCEPT !.ctl = rest, !.vals = Make(instr[2], l.vals)]
          [] instr[1] = "push" -> [l EXCEPT !.ctl = rest, !.vals = Append(l.vals, instr[2])]
          [] instr[1] = "raise" ->
                [l EXCEPT !.pc = "raised", !.ctl = <<>>, !.result = <<instr[2]>>]
          [] instr[1] = "return" ->
                [l EXCEPT !.pc = "returned", !.ctl = <<>>,
                          !.result = <<"ok", Top(l.vals, 0)>>]

RECURSIVE RunLocal(_)
RunLocal(l) ==
    IF l.pc = "run" /\ l.ctl # <<>> /\ IsLocal(Head(l.ctl))
    THEN RunLocal(ExecLocal(l))
    ELSE l

\* build_ast_from_tokens without "self._idx = 0".
BuildStartNoReset(tokens) ==
    [op |-> "build_ast_from_tokens", pc |-> "run", tokens |-> tokens,
     stream |-> MapTokens(tokens),
     ctl |-> << <<"set_stream">>, <<"call", "Prog">>,
                <<"expect", "EOF", "drop">>, <<"return">> >>,
     vals |-> <<>>, result |-> <<>>]

\* build_ast_from_tokens is entered: stream is mapped, the rest is to run.
BuildStart(tokens) ==
    [op |-> "build_ast_from_tokens", pc |-> "run", tokens |-> tokens,
     stream |-> MapTokens(tokens),
     ctl |-> << <<"set_idx">>, <<"set_stream">>, <<"call", "Prog">>,
                <<"expect", "EOF", "drop">>, <<"return">> >>,
     vals |-> <<>>, result |-> <<>>]

\* A failure that hands back what has been built so far.
RaisePartial(l, exception) ==
    [l EXCEPT !.pc = "returned", !.ctl = <<>>, !.result = <<"ok", l.vals>>]

\* raise: the exception leaves every _parse_ method and build_ast_from_tokens.
Raise(l, exception) == [l EXCEPT !.pc = "raised", !.ctl = <<>>, !.result = exception]

\* One access to self._idx or self._stream by an invocation, with the local
\* steps up to its next access: s = [l, _idx, _stream] before, the same after.
\* self._stream[self._idx] is one read and self._idx += 1 one update.
BuildIteration(s) ==
    LET l == s.l
        instr == Head(l.ctl)
        rest == Tail(l.ctl)
        reads == instr[1] \in {"accept", "expect", "expr", "relop_fail"}
        tok == s._stream[s._idx + 1]
        after ==
            CASE instr[1] = "set_idx" -> [s EXCEPT !.l.ctl = rest, !._idx = 0]
              [] instr[1] = "set_stream" -> [s EXCEPT !.l.ctl = rest, !._stream = l.stream]
              [] instr[1] = "inc" -> [s EXCEPT !.l.ctl = rest, !._idx = s._idx + 1]
              [] instr[1] = "accept" ->
                    IF tok[1] = instr[2]
                    THEN [s EXCEPT !.l.ctl = << <<"inc">> >> \o Code(instr[3]) \o rest]
                    ELSE [s EXCEPT !.l.ctl = Code(instr[4]) \o rest]
              [] instr[1] = "expect" ->
                    IF tok[1] # instr[2]
                    THEN [s EXCEPT !.l = Raise(l, <<"SyntaxError", <<"expected", instr[2], tok[1]>> >>)]
                    ELSE [s EXCEPT !.l.ctl = << <<"inc">> >> \o rest,
                                   !.l.vals = IF instr[3] = "keep"
                                              THEN Append(l.vals, tok[2]) ELSE l.vals]
              [] instr[1] = "expr" ->
                    IF tok[1] \in {"ID", "NUM", "STRING"}
                    THEN [s EXCEPT !.l.ctl = << <<"inc">> >> \o rest,
                                   !.l.vals = Append(l.vals,
                                                <<(CASE tok[1] = "ID" -> "Id"
                                                     [] tok[1] = "NUM" -> "Num"
                                                     [] tok[1] = "STRING" -> "Str"),
                                                  tok[2]>>)]
                    ELSE [s EXCEPT !.l = Raise(l, <<"SyntaxError", <<"expr_start", tok[1]>> >>)]
              [] instr[1] = "relop_fail" ->
                    [s EXCEPT !.l = Raise(l, <<"SyntaxError", <<"relop", tok[1]>> >>)]
    IN  IF reads /\ s._idx >= Len(s._stream)
        THEN [s EXCEPT !.l = Raise(l, <<"IndexError">>)]
        ELSE [after EXCEPT !.l = RunLocal(after.l)]

RECURSIVE BuildRun(_)
BuildRun(s) == IF s.l.pc = "run" THEN BuildRun(BuildIteration(s)) ELSE s

\* What build_ast_from_tokens returns or raises on an analyzer nobody else uses.
BuildAst(tokens) ==
    BuildRun([l |-> BuildStart(tokens), _idx |-> 0, _stream |-> <<>>]).l.result

----------------------------------------------------------------------------
(* One analyzer serving several invocations: one after the other (SpecSeq) *)
(* or from two threads at once (SpecConc).                                 *)

\* Well-formed statements of the forms other than SELECT.
OtherStatements ==
    { <<"INSERT", "INTO", "ID", "VALUES", "(", "NUM", ")", ";">>,
      <<"UPDATE", "ID", "SET", "ID", "=", "NUM", ";">>,
      <<"DELETE", "FROM", "ID", ";">>,
      <<"CREATE", "TABLE", "ID", ";">> }

\* The statements the callers hand in, as the kinds of their tokens.
Statements ==
    OtherStatements \cup
    { <<"COMMENT">>,
      <<"SELECT", "*", "FROM", "ID", ";">>,
      <<"SELECT", "ID", ",", "ID", "FROM", "ID", "WHERE", "ID", "=", "NUM",
        "AND", "ID", "<", "STRING", "OR", "NUM", ">=", "ID", ";">>,
      <<"SELECT", "FROM", "ID", ";">>,
      <<"SELECT", "ID", "FROM", "ID", "WHERE", "ID", "ID", ";">>,
      <<"SELECT", "ID", "FROM", "ID">>,
      <<"DELETE", "FROM", "ID", ";">>,
      <<>> }

ConcurrentStatements ==
    { <<"SELECT", "*", "FROM", "ID", ";">>,
      <<"SELECT", "ID", "FROM", "ID", "WHERE", "ID", "=", "NUM", ";">>,
      <<"SELECT", "FROM", "ID", ";">> }

\* build_ast_from_tokens is called.
CallBuildAst(t, tokens) ==
    /\ th[t].op = "idle"
    /\ th' = [th EXCEPT ![t] = BuildStart(tokens)]
    /\ calls' = calls + 1
    /\ UNCHANGED <<form, edit, _idx, _stream, done>>
    /\ UNCHANGED init_vars

\* The next access of build_ast_from_tokens to the cursor or the stream.
BuildStep(t) ==
    /\ th[t].op = "build_ast_from_tokens" /\ th[t].pc = "run"
    /\ LET after == BuildIteration([l |-> th[t], _idx |-> _idx, _stream |-> _stream]) IN
       /\ th' = [th EXCEPT ![t] = after.l]
       /\ _idx' = after._idx
       /\ _stream' = after._stream
    /\ UNCHANGED <<form, edit, calls, done>>
    /\ UNCHANGED init_vars

\* The caller has its result (or exception) and is free for its next call.
Finish(t) ==
    /\ th[t].op # "idle" /\ th[t].pc \notin {"loop", "run"}
    /\ done' = Append(done, th[t].pc)
    /\ th' = [th EXCEPT ![t] = Idle]
    /\ UNCHANGED <<form, edit, _idx, _stream, calls>>
    /\ UNCHANGED init_vars

InitCalls == Constructed /\ NoCalls

NextSeq ==
    \/ \E kinds \in Statements :
          /\ calls < MaxCalls
          /\ \/ CallAnalyzeTokens(1, Lex(kinds))
             \/ CallBuildAst(1, Lex(kinds))
    \/ EngineStep(1)
    \/ BuildStep(1)
    \/ Finish(1)

\* One caller, one invocation after the other.
SpecSeq == InitCalls /\ [][NextSeq]_vars

NextConc ==
    \E t \in Threads :
        \/ \E kinds \in ConcurrentStatements :
              /\ calls < MaxCalls
              /\ \/ CallAnalyzeTokens(t, Lex(kinds))
                 \/ CallBuildAst(t, Lex(kinds))
        \/ EngineStep(t)
        \/ BuildStep(t)
        \/ Finish(t)

\* Two threads calling the same analyzer.
SpecConc == InitCalls /\ [][NextConc]_vars

\* What an invocation returns (or raises) on an analyzer of its own.
Alone(l) ==
    IF l.op = "analyze_tokens" THEN AnalyzeTokens(BuiltTable, l.tokens)
    ELSE BuildAst(l.tokens)

\* C5: under every interleaving of two threads' invocations on one analyzer each
\* invocation returns what it returns when run alone.
C5_ConcurrentInvocations ==
    \A t \in Threads :
        (th[t].op # "idle" /\ th[t].pc \notin {"loop", "run"})
            => th[t].result = IF th[t].op = "analyze_tokens"
                              THEN AnalyzeTokens(BuiltTable, th[t].tokens)
                              ELSE BuildAst(th[t].tokens)

\* C6: whatever invocations came before on the same analyzer, failed ones
\* included, an invocation returns what it returns on a fresh analyzer.
C6_CleanState == Returned(1) => th[1].result = Alone(th[1])

\* A tree is built right after an invocation that raised part-way.
C6_Witness ==
    /\ th[1].op = "build_ast_from_tokens" /\ th[1].pc = "returned"
    /\ th[1].result[1] = "ok"
    /\ done # <<>> /\ done[Len(done)] = "raised"

----------------------------------------------------------------------------
(* Construction again and again, the dict of the grammar and the lists of  *)
(* its productions in another order each time (SpecRebuild).               *)

\* The grammar with the productions of every non-terminal in reverse order.
ProductionsReversed(g) ==
    [ i \in 1..Len(g) |-> [nt |-> g[i].nt, productions |-> Reversed(g[i].productions)] ]

\* The fixed grammar in the orders in which its productions are visited.
GrammarOrders ==
    { SQLGrammar, Reversed(SQLGrammar), ProductionsReversed(SQLGrammar),
      ProductionsReversed(Reversed(SQLGrammar)) }

\* The three construction calls are made again: each starts from empty sets
\* and an empty table.
Rebuild ==
    /\ pc = "ready"
    /\ \E g \in GrammarOrders :
         /\ grammar' = g
         /\ first_sets' = [nt \in non_terminals(g) |-> {}]
    /\ follow_sets' = <<>>
    /\ parsing_table' = <<>>
    /\ printed' = {}
    /\ changed' = TRUE
    /\ k' = 0
    /\ pc' = "first"
    /\ UNCHANGED call_vars

NextRebuild == Construct \/ Rebuild

SpecRebuild == InitBuild /\ [][NextRebuild]_vars

\* C11: however often construction is repeated and in whatever order the
\* productions are visited, the FIRST sets, the FOLLOW sets and the table are
\* those of the first construction.
C11_Deterministic ==
    /\ pc \in {"follow", "table", "ready"} => first_sets = BuiltFirst
    /\ pc \in {"table", "ready"} => follow_sets = BuiltFollow
    /\ pc = "ready" => parsing_table = BuiltTable /\ printed = {}

\* A construction that visited the productions in reverse order has ended.
C11_Witness ==
    /\ pc = "ready"
    /\ grammar = ProductionsReversed(Reversed(SQLGrammar))
    /\ parsing_table["CondTail"]["OR"] = <<"OR", "Cond">>

----------------------------------------------------------------------------
(* Properties of the steps of analyze_tokens (SpecEngine). *)

\* Length of the stream the loop of analyze_tokens starts with, marker included.
InputLength(l) == Len(ConvertTokens(l.tokens)) + 1

\* C12: a run of analyze_tokens takes at most (number of non-terminals) steps
\* per terminal of its input, and every iteration of its loop is one more step
\* that ends the run, changes the stack or shortens the input.
C12_Terminates ==
    /\ [](th[1].op = "analyze_tokens"
            => th[1].step <= Cardinality(non_terminals(SQLGrammar)) * InputLength(th[1]))
    /\ [][(th[1].op = "analyze_tokens" /\ th[1].pc = "loop" /\ th'[1] # th[1])
            => /\ th'[1].step = th[1].step + 1
               /\ \/ th'[1].pc # "loop"
                  \/ th'[1].stack # th[1].stack
                  \/ Len(th'[1].input_tokens) < Len(th[1].input_tokens)]_vars

\* A run of twice as many steps as its input has terminals has ended in accept.
C12_Witness ==
    /\ th[1].op = "analyze_tokens" /\ th[1].pc = "accepted"
    /\ th[1].step >= 2 * InputLength(th[1])

----------------------------------------------------------------------------
(* build_ast_from_tokens on one statement: a SELECT with a select-list and *)
(* a condition of a few comparisons, or a statement of another form; the   *)
(* caller may damage it first (SpecTree).                                  *)

IdList(n) == [ i \in 1..(2 * n - 1) |-> IF i % 2 = 1 THEN "ID" ELSE "," ]

SelLists == { <<"*">> } \cup { IdList(n) : n \in 1..MaxNames }

Comparisons == { <<"ID", "=", "NUM">>, <<"NUM", "<>", "STRING">>, <<"STRING", ">=", "ID">> }

\* The conditions of n comparisons joined by AND and OR.
RECURSIVE Conds(_)
Conds(n) ==
    IF n = 1 THEN Comparisons
    ELSE { c \o <<o>> \o r : c \in Comparisons, o \in {"AND", "OR"}, r \in Conds(n - 1) }

Wheres == { <<>> } \cup UNION { { <<"WHERE">> \o c : c \in Conds(n) } : n \in 1..MaxConds }

SelectStatements ==
    { <<"SELECT">> \o l \o <<"FROM", "ID">> \o w \o <<";">> : l \in SelLists, w \in Wheres }

InitTree ==
    /\ Constructed
    /\ form \in SelectStatements \cup OtherStatements
    /\ edit = "none"
    /\ th = [t \in Threads |-> Idle]
    /\ _idx = 0
    /\ _stream = <<>>
    /\ calls = 0
    /\ done = <<>>

NextTree ==
    \/ DropToken
    \/ CutShort
    \/ AppendToken
    \/ (calls = 0 /\ CallBuildAst(1, Lex(form)))
    \/ BuildStep(1)

SpecTree == InitTree /\ [][NextTree]_vars

\* build_ast_from_tokens of thread 1 has ended, by return or by exception.
BuildEnded == th[1].op = "build_ast_from_tokens" /\ th[1].pc # "run"

\* It returned a tree.
BuildReturned == BuildEnded /\ th[1].pc = "returned"

\* The tree of the Select of a returned Program.
ReturnedSelect == th[1].result[2][2]

\* Read off the stream s of terminals: the leaf at place i, the comparison that
\* begins at place i, and the condition that begins there.
LeafAt(s, i) ==
    << (CASE s[i][1] = "ID" -> "Id" [] s[i][1] = "NUM" -> "Num" [] s[i][1] = "STRING" -> "Str"),
       s[i][2] >>

ComparisonAt(s, i) == <<"BinaryOp", LeafAt(s, i), s[i + 1][1], LeafAt(s, i + 2)>>

RECURSIVE RightLeaningAt(_, _)
RightLeaningAt(s, i) ==
    IF s[i + 3][1] \in {"AND", "OR"}
    THEN <<"BinaryOp", ComparisonAt(s, i), s[i + 3][1], RightLeaningAt(s, i + 4)>>
    ELSE ComparisonAt(s, i)

PlaceOf(s, terminal) == CHOOSE i \in 1..Len(s) : s[i][1] = terminal

HasTerminal(s, terminal) == \E i \in 1..Len(s) : s[i][1] = terminal

\* tokenize('SELECT a, b FROM t WHERE a = 1 AND b <> 2;')
ExampleTokens ==
    << <<"KEYWORD", "SELECT", 1, 0>>, <<"ID", "a", 1, 7>>, <<"RANGE", ",", 1, 8>>,
       <<"ID", "b", 1, 10>>, <<"KEYWORD", "FROM", 1, 12>>, <<"ID", "t", 1, 17>>,
       <<"KEYWORD", "WHERE", 1, 19>>, <<"ID", "a", 1, 25>>, <<"OP", "=", 1, 27>>,
       <<"NUM", "1", 1, 29>>, <<"KEYWORD", "AND", 1, 31>>, <<"ID", "b", 1, 35>>,
       <<"OP", "<>", 1, 37>>, <<"NUM", "2", 1, 40>>, <<"RANGE", ";", 1, 41>> >>

C14_SelectList ==
    BuildReturned =>
        LET s == th[1].stream
            n == (PlaceOf(s, "FROM") - 1) \div 2
        IN  ReturnedSelect[2]
              = IF s[2][1] = "*" THEN <<"Columns", TRUE, <<>> >>
                ELSE <<"Columns", FALSE, [ j \in 1..n |-> s[2 * j][2] ]>>

\* A tree with a list of MaxNames identifiers has been returned.
C14_Witness ==
    /\ BuildReturned
    /\ ReturnedSelect[2][2] = FALSE
    /\ Len(ReturnedSelect[2][3]) = MaxNames
    /\ ReturnedSelect[2][3][1] # ReturnedSelect[2][3][2]

\* The statement forms the tree builder does not support.
UnsupportedForms == {"INSERT", "UPDATE", "DELETE", "CREATE"}

\* C15: on a stream that begins with INSERT, UPDATE, DELETE or CREATE
\* build_ast_from_tokens consumes no terminal and ends with
\* NotImplementedError, holding no node.
C15_Unsupported ==
    (th[1].op = "build_ast_from_tokens" /\ th[1].stream[1][1] \in UnsupportedForms) =>
        /\ _idx = 0
        /\ th[1].vals = <<>>
        /\ th[1].pc # "run" => th[1].pc = "raised" /\ th[1].result = <<"NotImplementedError">>

\* The build of a DELETE statement has ended.
C15_Witness ==
    /\ BuildEnded /\ edit = "none"
    /\ form = <<"DELETE", "FROM", "ID", ";">>
    /\ th[1].result = <<"NotImplementedError">>

\* What analyze_tokens returns ends in the accept record.
Accepts(tokens) ==
    LET trace == AnalyzeTokens(BuiltTable, tokens) IN
    trace # <<>> /\ IsAcceptRecord(trace[Len(trace)])

\* C17: on a stream whose first terminal is SELECT build_ast_from_tokens returns
\* a tree exactly if analyze_tokens on the same tokens ends in accept.
C17_Equivalence ==
    (BuildEnded /\ th[1].stream # <<>> /\ th[1].stream[1][1] = "SELECT") =>
        (th[1].pc = "returned" /\ th[1].result[1] = "ok") <=> Accepts(th[1].tokens)

\* Both reject a damaged SELECT; both accept one with a comment appended.
C17_Witness ==
    /\ BuildEnded /\ th[1].stream[1][1] = "SELECT"
    /\ \/ edit = "drop" /\ th[1].pc = "raised" /\ ~Accepts(th[1].tokens)
       \/ edit = "append" /\ th[1].pc = "returned" /\ Accepts(th[1].tokens)

----------------------------------------------------------------------------
(* The same statement handed to the engine and to the tree builder, and    *)
(* input without any terminal (SpecSeq).                                   *)

\* C16: for a well-formed INSERT, UPDATE, DELETE or CREATE statement ended by
\* ';' analyze_tokens returns a trace whose last record is the accept action,
\* and build_ast_from_tokens on the same tokens raises NotImplementedError.
C16_EngineRecognizes ==
    \A kinds \in OtherStatements :
        (th[1].op = "analyze_tokens" /\ Returned(1) /\ th[1].tokens = Lex(kinds)) =>
            /\ th[1].pc = "accepted"
            /\ th[1].result # <<>>
            /\ IsAcceptRecord(th[1].result[Len(th[1].result)])
            /\ BuildAst(th[1].tokens) = <<"NotImplementedError">>

\* C18: when the input holds no terminal but the end-of-input marker,
\* analyze_tokens returns the empty-input error, has taken no step and has
\* recorded no trace.
C18_EmptyInput ==
    (th[1].op = "analyze_tokens" /\ Returned(1) /\ ConvertTokens(th[1].tokens) = <<>>) =>
        /\ th[1].pc = "empty"
        /\ th[1].step = 0
        /\ th[1].output = <<>>
        /\ th[1].result = CreateErrorOutput(<<"empty_input">>)

----------------------------------------------------------------------------
(* The steps of the engine, read off the trace and off the transitions of  *)
(* one call (SpecEngine).                                                  *)

\* The top of the stack and the kind of the current terminal as a trace record
\* shows them.
TopOf(record) == record[2][Len(record[2])]

CurrentOf(record) == record[3][1][1]

\* The record of a step whose stack top is a terminal, the end marker at the
\* bottom of the stack included, other than the current terminal.
IsMismatch(record) ==
    /\ record[2] # <<>> /\ record[3] # <<>>
    /\ TopOf(record) \in terminals \cup {"$"}
    /\ TopOf(record) # CurrentOf(record)
    /\ ~(TopOf(record) = "$" /\ CurrentOf(record) = "EOF")

\* C19: a step whose stack top is a terminal (the end marker included) other
\* than the current terminal is the last step of the run, and the run fails
\* with the error "expected top, found current" naming both.
C19_TerminalMismatch ==
    th[1].op = "analyze_tokens" =>
        \A i \in 1..Len(th[1].output) :
            IsMismatch(th[1].output[i]) =>
                /\ i = Len(th[1].output)
                /\ th[1].pc = "failed"
                /\ th[1].output[i][4] = <<"error_expected", TopOf(th[1].output[i]),
                                          CurrentOf(th[1].output[i])>>
                /\ th[1].result = CreateErrorOutput(th[1].output[i][4])

\* C20: a step that uses a production takes the non-terminal off the top and
\* puts the production's symbols there in reverse order, its leftmost symbol
\* on top (nothing for the empty production), and leaves the input as it is; a
\* step that matches takes exactly the top off the stack and exactly the first
\* terminal off the input; any other step leaves stack and input as they are.
C20_StepEffects ==
    [][(th[1].op = "analyze_tokens" /\ th[1].pc = "loop" /\ th'[1] # th[1]) =>
        LET old == th[1]
            new == th'[1]
            below == SubSeq(old.stack, 1, Len(old.stack) - 1)
            action == new.output[Len(new.output)][4]
        IN
        /\ Len(new.output) = Len(old.output) + 1
        /\ CASE action[1] = "use" ->
                   /\ action[2] = old.stack[Len(old.stack)]
                   /\ action[2] \in non_terminals(SQLGrammar)
                   /\ action[3] = parsing_table[action[2]][old.input_tokens[1][1]]
                   /\ Len(new.stack) = Len(below) + Len(action[3])
                   /\ SubSeq(new.stack, 1, Len(below)) = below
                   /\ \A j \in 1..Len(action[3]) :
                          new.stack[Len(new.stack) + 1 - j] = action[3][j]
                   /\ new.input_tokens = old.input_tokens
             [] action[1] = "match" ->
                   /\ action[2] = old.stack[Len(old.stack)]
                   /\ action[2] = old.input_tokens[1][1]
                   /\ new.stack = below
                   /\ new.input_tokens = Tail(old.input_tokens)
             [] OTHER ->
                   /\ new.stack = old.stack
                   /\ new.input_tokens = old.input_tokens]_vars

\* An accepted run that used a production of three symbols and the empty
\* production and matched a terminal.
C20_Witness ==
    /\ th[1].op = "analyze_tokens" /\ th[1].pc = "accepted"
    /\ \E i \in 1..Len(th[1].output) :
          th[1].output[i][4][1] = "use" /\ Len(th[1].output[i][4][3]) >= 3
    /\ \E i \in 1..Len(th[1].output) :
          th[1].output[i][4][1] = "use" /\ th[1].output[i][4][3] = <<>>
    /\ \E i \in 1..Len(th[1].output) : th[1].output[i][4][1] = "match"

\* C21: an accepting run returns one record per executed step, the k-th with
\* step index k; every record shows the stack as it was before the step's
\* action; the accept action is recorded only where the stack top is the
\* bottom marker and the current terminal is the end of input, exactly once,
\* as the last record.
C21_TraceShape ==
    /\ []((th[1].op = "analyze_tokens" /\ th[1].pc = "accepted") =>
            /\ th[1].result = th[1].output
            /\ Len(th[1].result) = th[1].step
            /\ \A n \in 1..Len(th[1].result) : th[1].result[n][1] = n
            /\ AcceptRecords(th[1].result) = {Len(th[1].result)})
    /\ [](th[1].op = "analyze_tokens" =>
            \A n \in 1..Len(th[1].output) :
                IsAcceptRecord(th[1].output[n]) =>
                    /\ TopOf(th[1].output[n]) = "$"
                    /\ CurrentOf(th[1].output[n]) = "EOF")
    /\ [][(th[1].op = "analyze_tokens" /\ th[1].pc = "loop" /\ th'[1] # th[1]) =>
            /\ Len(th'[1].output) = Len(th[1].output) + 1
            /\ SubSeq(th'[1].output, 1, Len(th[1].output)) = th[1].output
            /\ th'[1].output[Len(th'[1].output)][1] = th[1].step + 1
            /\ th'[1].output[Len(th'[1].output)][2] = th[1].stack]_vars

\* An accepted run of a statement with a condition: more than twenty records.
C21_Witness ==
    /\ th[1].op = "analyze_tokens" /\ th[1].pc = "accepted"
    /\ Len(th[1].result) > 20
    /\ \E n \in 1..Len(th[1].result) : th[1].result[n][4] = <<"match", "WHERE">>

----------------------------------------------------------------------------
(* The content of the table of the fixed grammar (SpecBuild).              *)

\* The terminals a derivation from the sequence can begin with, and whether
\* the sequence derives the empty string, by the reference sets.
RefFirstOfSequence(g, sequence) ==
    UNION { RefFirstOfSymbol(g, sequence[n]) \ {EPS} :
              n \in { m \in 1..Len(sequence) :
                        \A q \in 1..(m - 1) : sequence[q] \in RefNullable(g) } }

RefNullableSequence(g, sequence) ==
    \A n \in 1..Len(sequence) : sequence[n] \in RefNullable(g)

\* Rule i claims the cell of its non-terminal at the terminal.
ClaimsCell(i, terminal) ==
    \/ terminal \in RefFirstOfSequence(SQLGrammar, rules[i].production)
    \/ /\ RefNullableSequence(SQLGrammar, rules[i].production)
       /\ terminal \in SQLRefFollowEOF[rules[i].nt]

\* C22: the finished table has a row for every non-terminal and in it a cell
\* for every terminal; the cell [A][t] holds alpha for each production
\* A -> alpha and each t of FIRST(alpha) but the nullable marker, and the empty
\* production for each nullable alpha and each t of FOLLOW(A); every other
\* cell holds None.
C22_TableContent ==
    pc = "ready" =>
        /\ DOMAIN parsing_table = non_terminals(SQLGrammar)
        /\ \A nt \in DOMAIN parsing_table : DOMAIN parsing_table[nt] = terminals
        /\ \A i \in 1..Len(rules) :
              /\ \A t \in RefFirstOfSequence(SQLGrammar, rules[i].production) :
                    parsing_table[rules[i].nt][t] = rules[i].production
              /\ RefNullableSequence(SQLGrammar, rules[i].production) =>
                    \A t \in SQLRefFollowEOF[rules[i].nt] :
                        parsing_table[rules[i].nt][t] = <<>>
        /\ \A nt \in non_terminals(SQLGrammar) : \A t \in terminals :
              (\A i \in 1..Len(rules) : rules[i].nt = nt => ~ClaimsCell(i, t))
                  => parsing_table[nt][t] = None

\* The finished table: a cell by FIRST, two cells by FOLLOW, a cell left None.
C22_Witness ==
    /\ pc = "ready"
    /\ parsing_table["SelList"]["*"] = <<"*">>
    /\ parsing_table["SelListRest"]["FROM"] = <<>>
    /\ parsing_table["SetListRest"][";"] = <<>>
    /\ parsing_table["WhereOpt"]["EOF"] = None

----------------------------------------------------------------------------
(* The analyzer from its construction on: __init__ runs to its end, then   *)
(* the caller makes its invocations one after the other (SpecLife).        *)

NextLife ==
    \/ Construct
    \/ (pc = "ready" /\ NextSeq)

SpecLife == InitBuild /\ [][NextLife]_vars

\* C23: an invocation exists only once construction has run to its end, and
\* no step of analyze_tokens or build_ast_from_tokens (its call, its steps,
\* its return or its error) changes the grammar, the FIRST sets, the FOLLOW
\* sets or the table, or takes construction up again.
C23_ReadOnly ==
    /\ []((\E t \in Threads : th[t].op # "idle") => pc = "ready")
    /\ [][(th' # th \/ _idx' # _idx \/ _stream' # _stream \/ calls' # calls
              \/ done' # done) =>
            /\ pc = "ready" /\ pc' = "ready"
            /\ grammar' = grammar
            /\ first_sets' = first_sets
            /\ follow_sets' = follow_sets
            /\ parsing_table' = parsing_table]_vars

\* After a failed analysis and a raised build the table is the one that
\* construction left.
C23_Witness ==
    /\ Len(done) = MaxCalls
    /\ done[1] = "failed" /\ done[MaxCalls] = "raised"
    /\ pc = "ready" /\ parsing_table = BuiltTable
    /\ first_sets = BuiltFirst /\ follow_sets = BuiltFollow

----------------------------------------------------------------------------
(* Construction as a program that keeps running: no step that can be taken *)
(* is put off for ever (SpecBuildFair).                                    *)

SpecBuildFair == InitBuild /\ [][Construct]_vars /\ WF_vars(Construct)

\* No FIRST set and no FOLLOW set loses an element in the step.
SetsGrow ==
    /\ \A nt \in DOMAIN first_sets : first_sets[nt] \subseteq first_sets'[nt]
    /\ \A nt \in DOMAIN follow_sets : follow_sets[nt] \subseteq follow_sets'[nt]

\* C24: the passes of _compute_first_sets and _compute_follow_sets only add
\* elements to the sets; a pass is followed by another exactly if a set grew
\* in it, so each loop stops at the first pass in which no set grows; and each
\* loop does stop.
C24_Fixpoint ==
    /\ [][SetsGrow]_vars
    /\ [][(pc = "first" /\ k >= 1) =>
            (changed' <=> (changed \/ first_sets' # first_sets))]_vars
    /\ [][(pc = "follow" /\ k >= 1) =>
            (changed' <=> (changed \/ follow_sets' # follow_sets))]_vars
    /\ [][(pc \in {"first", "follow"} /\ k = 0) =>
            IF changed
            THEN pc' = pc /\ k' = 1 /\ ~changed'
                 /\ first_sets' = first_sets /\ follow_sets' = follow_sets
            ELSE pc' # pc]_vars
    /\ <>(pc \notin {"first"})
    /\ <>(pc \notin {"first", "follow"})

\* The FOLLOW loop at the end of a pass in which no set grew.
C24_Witness ==
    /\ pc = "follow" /\ k = 0 /\ ~changed
    /\ follow_sets["Expr"] # {}
    /\ EPS \in first_sets["CondTail"]

----------------------------------------------------------------------------
(* The terminal checks and the cursor of the tree builder (SpecTree).      *)

\* The invocation of thread 1 is about to run the instruction.
BuildAt(kind) ==
    /\ th[1].op = "build_ast_from_tokens" /\ th[1].pc = "run"
    /\ th[1].ctl # <<>> /\ Head(th[1].ctl)[1] = kind

\* C25: _expect(term) with the current terminal of kind term goes on to
\* "self._idx += 1", which advances the cursor by exactly one; with a current
\* terminal of another kind it raises SyntaxError naming term and that kind,
\* the cursor unchanged; after the failure nothing more of the build runs, and
\* what the caller gets is the exception: no tree, no partial node.
C25_Expect ==
    /\ [][(BuildAt("expect") /\ th'[1] # th[1]) =>
            /\ _idx < Len(_stream)
            /\ _idx' = _idx
            /\ IF _stream[_idx + 1][1] = Head(th[1].ctl)[2]
               THEN th'[1].pc = "run" /\ Head(th'[1].ctl) = <<"inc">>
               ELSE /\ th'[1].pc = "raised"
                    /\ th'[1].result = <<"SyntaxError",
                                          <<"expected", Head(th[1].ctl)[2],
                                            _stream[_idx + 1][1]>> >>]_vars
    /\ [][(BuildAt("inc") /\ th'[1] # th[1]) =>
            _idx' = _idx + 1 /\ _stream' = _stream]_vars
    /\ [][(th[1].op = "build_ast_from_tokens" /\ th[1].pc = "raised") =>
            th'[1] = th[1] /\ _idx' = _idx]_vars
    /\ []((th[1].op = "build_ast_from_tokens" /\ th[1].pc = "raised") =>
            th[1].ctl = <<>> /\ th[1].result[1] \in {"SyntaxError", "NotImplementedError"})

\* A SELECT cut short before its ';': the Select node was built, then
\* _expect(';') failed at the end of the input.
C25_Witness ==
    /\ BuildEnded /\ edit = "cut"
    /\ th[1].result = <<"SyntaxError", <<"expected", ";", "EOF">> >>
    /\ Len(th[1].vals) = 1 /\ th[1].vals[1][1] = "Select"
    /\ _idx = Len(_stream) - 1

----------------------------------------------------------------------------
(* A statement with comments and tokens of unknown type put into it, handed *)
(* to the engine or to the tree builder (SpecIgnore).                       *)

IgnoredKinds == {"COMMENT", "UNKNOWN"}

\* The caller puts a comment or a token of unknown type into the statement.
InsertIgnored ==
    /\ calls = 0 /\ edit \in {"none", "insert"}
    /\ form # <<>> /\ Len(form) <= MaxEditLen
    /\ Cardinality({ i \in 1..Len(form) : form[i] \in IgnoredKinds }) < MaxIgnored
    /\ \E i \in 0..Len(form) : \E x \in IgnoredKinds :
         form' = SubSeq(form, 1, i) \o <<x>> \o SubSeq(form, i + 1, Len(form))
    /\ edit' = "insert"
    /\ UNCHANGED <<th, _idx, _stream, calls, done>>
    /\ UNCHANGED init_vars

\* The caller starts from one of the statements of SpecSeq, well-formed or not.
InitIgnore ==
    /\ Constructed
    /\ form \in Statements
    /\ edit = "none"
    /\ th = [t \in Threads |-> Idle]
    /\ _idx = 0
    /\ _stream = <<>>
    /\ calls = 0
    /\ done = <<>>

NextIgnore ==
    \/ InsertIgnored
    \/ (calls = 0 /\ CallAnalyzeTokens(1, Lex(form)))
    \/ (calls = 0 /\ CallBuildAst(1, Lex(form)))
    \/ EngineStep(1)
    \/ BuildStep(1)

SpecIgnore == InitIgnore /\ [][NextIgnore]_vars

\* A token that is neither a comment nor of unknown type, and the tokens of
\* that sort in a list.
IsParsed(token) == token[1] \notin IgnoredKinds

Parsed(tokens) == SelectSeq(tokens, IsParsed)

IsWritten(kind) == kind \notin IgnoredKinds

\* C26: the terminals parsed are the kinds the caller wrote, comments and
\* tokens of unknown type left out and keywords in upper case whatever their
\* spelling; and on a list that holds a token besides those, the engine's
\* verdict and what the tree builder returns or raises are the same as on the
\* list without them.
C26_IgnoredTokens ==
    (Returned(1) /\ Parsed(th[1].tokens) # <<>>) =>
        /\ [ i \in 1..Len(ConvertTokens(th[1].tokens)) |-> ConvertTokens(th[1].tokens)[i][1] ]
              = SelectSeq(form, IsWritten)
        /\ th[1].op = "analyze_tokens" =>
              (th[1].pc = "accepted" <=> Accepts(Parsed(th[1].tokens)))
        /\ th[1].op = "build_ast_from_tokens" =>
              /\ th[1].stream = MapTokens(Parsed(th[1].tokens))
              /\ th[1].result = BuildAst(Parsed(th[1].tokens))

\* A statement that begins with a comment and holds a token of unknown type
\* is accepted, its first keyword in upper case and its next in lower case.
C26_Witness ==
    /\ th[1].op = "analyze_tokens" /\ th[1].pc = "accepted"
    /\ th[1].tokens[1][1] = "COMMENT"
    /\ \E i \in 1..Len(th[1].tokens) : th[1].tokens[i][1] = "UNKNOWN"
    /\ \E i \in 1..Len(th[1].tokens) : th[1].tokens[i] = <<"KEYWORD", "SELECT", 1, i>>
    /\ \E i \in 1..Len(th[1].tokens) : th[1].tokens[i] = <<"KEYWORD", "from", 1, i>>

----------------------------------------------------------------------------
(* The engine's run as a leftmost derivation (SpecEngine).                 *)

KindsOf(tokens) == [ i \in 1..Len(tokens) |-> tokens[i][1] ]

\* The terminals the run has matched: the converted input without what is
\* still to read.
Matched(l) ==
    LET all == ConvertTokens(l.tokens) \o <<EOFToken>> IN
    KindsOf(SubSeq(all, 1, Len(all) - Len(l.input_tokens)))

\* The terminals matched, then the stack from its top down to the symbol
\* above the bottom marker.
SententialForm(l) == Matched(l) \o Reversed(SubSeq(l.stack, 2, Len(l.stack)))

\* g comes from f by one production of the grammar applied to the leftmost
\* non-terminal of f.
LeftmostStep(f, g) ==
    LET i == LeftmostNonTerminal(f)
        all == Rules(SQLGrammar)
    IN  /\ i # 0
        /\ \E r \in 1..Len(all) :
              /\ all[r].nt = f[i]
              /\ g = SubSeq(f, 1, i - 1) \o all[r].production \o SubSeq(f, i + 1, Len(f))

\* The grammar derives the terminal string w from the form f.
RECURSIVE Derivable(_, _)
Derivable(f, w) ==
    LET i == LeftmostNonTerminal(f)
        all == Rules(SQLGrammar)
    IN  IF i = 0 THEN f = w
        ELSE /\ i - 1 <= Len(w)
             /\ SubSeq(f, 1, i - 1) = SubSeq(w, 1, i - 1)
             /\ YieldOf(ShortestYield, f) <= Len(w)
             /\ \E r \in 1..Len(all) :
                   /\ all[r].nt = f[i]
                   /\ Derivable(SubSeq(f, 1, i - 1) \o all[r].production
                                   \o SubSeq(f, i + 1, Len(f)), w)

\* C27: a run starts with the form Prog; every step leaves the form (the
\* terminals matched, then the stack from the top down, without the bottom
\* marker) as it is or rewrites its leftmost non-terminal by a production of
\* the grammar; so an accepted run has matched a terminal string that the
\* grammar derives from Prog.
C27_SententialForm ==
    /\ []((th[1].op = "analyze_tokens" /\ th[1].pc = "loop" /\ th[1].step = 0) =>
            SententialForm(th[1]) = <<"Prog">>)
    /\ [][(th[1].op = "analyze_tokens" /\ th[1].pc = "loop" /\ th'[1] # th[1]) =>
            \/ SententialForm(th'[1]) = SententialForm(th[1])
            \/ LeftmostStep(SententialForm(th[1]), SententialForm(th'[1]))]_vars
    /\ []((th[1].op = "analyze_tokens" /\ th[1].pc = "accepted") =>
            /\ th[1].stack = <<"$">>
            /\ KindsOf(th[1].input_tokens)[1] = "EOF"
            /\ SententialForm(th[1]) = Matched(th[1])
            /\ Derivable(<<"Prog">>, Matched(th[1])))

\* Half-way through a run: five terminals matched, a condition to come.
C27_Witness ==
    /\ th[1].op = "analyze_tokens" /\ th[1].pc = "loop"
    /\ Len(Matched(th[1])) = 5
    /\ th[1].stack[Len(th[1].stack)] = "Cond"
    /\ SententialForm(th[1]) = Matched(th[1]) \o <<"Cond", ";">>

\* The kinds of step that read self._stream[self._idx].
ReadKinds == {"accept", "expect", "expr", "relop_fail"}

\* C28: from its reset to 0 on, the cursor of a build never decreases and
\* moves by one at most; every read of the current terminal finds the cursor
\* within the mapped stream; a terminal EOF is consumed only by the final
\* _expect('EOF'), right before the return; and the build ends with a Program,
\* with SyntaxError or with NotImplementedError, never by reading past the end.
C28_CursorBounds ==
    /\ [][(th[1].op = "build_ast_from_tokens" /\ ~BuildAt("set_idx")) =>
            _idx' >= _idx /\ _idx' <= _idx + 1]_vars
    /\ [](\A kind \in ReadKinds : BuildAt(kind) =>
            /\ _stream = th[1].stream
            /\ 0 <= _idx /\ _idx < Len(_stream))
    /\ [][(BuildAt("inc") /\ _stream[_idx + 1][1] = "EOF" /\ th'[1] # th[1]) =>
            th'[1].pc = "returned" /\ _idx' <= Len(_stream)]_vars
    /\ [](BuildEnded =>
            \/ th[1].pc = "returned" /\ th[1].result[1] = "ok"
                 /\ th[1].result[2][1] = "Program"
            \/ th[1].pc = "raised"
                 /\ th[1].result[1] \in {"SyntaxError", "NotImplementedError"})

\* The build on the empty token list has ended: the stream was the end
\* marker alone and the cursor stayed on it.
C28_Witness ==
    /\ BuildEnded /\ th[1].tokens = <<>>
    /\ _stream = <<EOFToken>> /\ _idx = 0
    /\ th[1].pc = "raised"

============================================================================
